---- MODULE Spec2Model ----
(***************************************************************************)
(* Model of the scoring pipeline of src/streamlit_app.py: the text         *)
(* extractor extract_text_from_url and the orchestrator process_rfps       *)
(* (eligibility filter, text aggregation, keyword scoring, feature         *)
(* derivation, assembly of the result record, final sort).                 *)
(*                                                                         *)
(* Python text is a sequence of one-character strings.  A Python value of  *)
(* the feed (JSON) is a tagged record: PyStr, PyNone, PyInt, PyList.  A    *)
(* feed record (a dict) is a function whose domain is the set of keys that *)
(* are present.                                                            *)
(***************************************************************************)
EXTENDS Integers, Sequences, FiniteSets, Bags, TLC

VARIABLES rfps, keywords, log_skipped, today, pc, idx, fields_to_search,
          scored_bids, skipped, returned, events

vars == <<rfps, keywords, log_skipped, today, pc, idx, fields_to_search,
          scored_bids, skipped, returned, events>>

\* ------------------------------------------------------------------ bounds
\* Largest number of records in one batch handed to process_rfps.
MaxBatch == 2

\* ------------------------------------------------------------ Python values
PyStr(s) == [t |-> "str", v |-> s]
PyNone == [t |-> "none"]
PyInt(n) == [t |-> "int", n |-> n]
PyList(xs) == [t |-> "list", items |-> xs]

\* dict.get(key, default)
Get(d, key, default) == IF key \in DOMAIN d THEN d[key] ELSE default

\* A test for "is not None" in place of the truth value.
IsNotNone(val) == val.t # "none"

\* bool(value), as the `if detail_url:` test takes it
Truthy(val) ==
    CASE val.t = "str" -> val.v # <<>>
      [] val.t = "none" -> FALSE
      [] val.t = "int" -> val.n # 0
      [] val.t = "list" -> val.items # <<>>

\* ------------------------------------------------------------------- text
UpperLetters == <<"A","B","C","D","E","F","G","H","I","J","K","L","M",
                  "N","O","P","Q","R","S","T","U","V","W","X","Y","Z">>
LowerLetters == <<"a","b","c","d","e","f","g","h","i","j","k","l","m",
                  "n","o","p","q","r","s","t","u","v","w","x","y","z">>
DigitChars == <<"0","1","2","3","4","5","6","7","8","9">>

\* The position of c in the sequence s, or 0.
IndexIn(c, s) ==
    IF \E k \in 1..Len(s) : s[k] = c
    THEN CHOOSE k \in 1..Len(s) : s[k] = c
    ELSE 0

\* The case mappings of the letters, as functions.
LowerOf == [c \in { UpperLetters[k] : k \in 1..26 } |-> LowerLetters[IndexIn(c, UpperLetters)]]
UpperOf == [c \in { LowerLetters[k] : k \in 1..26 } |-> UpperLetters[IndexIn(c, LowerLetters)]]
DigitOf == [c \in { DigitChars[k] : k \in 1..10 } |-> IndexIn(c, DigitChars) - 1]

UpperSet == DOMAIN LowerOf
LowerSet == DOMAIN UpperOf
DigitSet == DOMAIN DigitOf

LowerChar(c) == IF c \in UpperSet THEN LowerOf[c] ELSE c
UpperChar(c) == IF c \in LowerSet THEN UpperOf[c] ELSE c

\* str.lower() and str.upper()
lower(s) == [k \in 1..Len(s) |-> LowerChar(s[k])]
upper(s) == [k \in 1..Len(s) |-> UpperChar(s[k])]

\* sep.join(parts)
RECURSIVE join(_, _)
join(sep, parts) ==
    IF parts = <<>> THEN <<>>
    ELSE IF Len(parts) = 1 THEN parts[1]
    ELSE parts[1] \o sep \o join(sep, Tail(parts))

\* Does pat occur in text at position k (1-based)?
MatchAt(pat, text, k) ==
    /\ k >= 1
    /\ k + Len(pat) - 1 <= Len(text)
    /\ \A j \in 1..Len(pat) : text[k + j - 1] = pat[j]

\* `pat in text`
Contains(pat, text) == \E k \in 1..(Len(text) + 1) : MatchAt(pat, text, k)

\* text.endswith(suffix)
endswith(text, suffix) ==
    /\ Len(suffix) <= Len(text)
    /\ MatchAt(suffix, text, Len(text) - Len(suffix) + 1)

\* len(re.findall(re.escape(pat), text)): the scan goes left to right, a match
\* consumes its characters, and an empty match moves on by one character.
RECURSIVE FindallFrom(_, _, _)
FindallFrom(pat, text, k) ==
    IF k + Len(pat) - 1 > Len(text) THEN 0
    ELSE IF MatchAt(pat, text, k)
         THEN 1 + FindallFrom(pat, text, k + (IF Len(pat) = 0 THEN 1 ELSE Len(pat)))
         ELSE FindallFrom(pat, text, k + 1)

\* The same scan with the pattern left unescaped: "." matches any character.
RECURSIVE FindallUnescapedFrom(_, _, _)
FindallUnescapedFrom(pat, text, k) ==
    IF k + Len(pat) - 1 > Len(text) THEN 0
    ELSE IF \A j \in 1..Len(pat) : pat[j] = "." \/ text[k + j - 1] = pat[j]
         THEN 1 + FindallUnescapedFrom(pat, text, k + (IF Len(pat) = 0 THEN 1 ELSE Len(pat)))
         ELSE FindallUnescapedFrom(pat, text, k + 1)
findall_count_unescaped(pat, text) == FindallUnescapedFrom(pat, text, 1)

findall_count(pat, text) == FindallFrom(pat, text, 1)

\* str.strip(): leading and trailing blanks removed
IsBlank(c) == c = " "
RECURSIVE lstrip(_)
lstrip(s) == IF s # <<>> /\ IsBlank(s[1]) THEN lstrip(Tail(s)) ELSE s
RECURSIVE rstrip(_)
rstrip(s) == IF s # <<>> /\ IsBlank(s[Len(s)]) THEN rstrip(SubSeq(s, 1, Len(s) - 1)) ELSE s
strip(s) == rstrip(lstrip(s))

\* s[:n]
Prefix(s, n) == SubSeq(s, 1, IF Len(s) < n THEN Len(s) ELSE n)

\* repr() of a text without quotes or escapes in it, and str() of a value
repr_str(s) == <<"'">> \o s \o <<"'">>
str_(val) ==
    CASE val.t = "str" -> val.v
      [] val.t = "none" -> <<"N","o","n","e">>
      [] val.t = "int" -> <<DigitChars[val.n + 1]>>
      [] val.t = "list" ->
            <<"[">> \o join(<<","," ">>, [k \in 1..Len(val.items) |-> repr_str(val.items[k])]) \o <<"]">>

\* ------------------------------------------------------------------ dates
\* A calendar date is <<year, month, day>>.
IsDigit(c) == c \in DigitSet
DigitVal(c) == DigitOf[c]

\* int() of the digits s[a..b]
RECURSIVE Num(_, _, _)
Num(s, a, b) == IF b < a THEN 0 ELSE 10 * Num(s, a, b - 1) + DigitVal(s[b])

IsLeap(y) == (y % 4 = 0 /\ y % 100 # 0) \/ y % 400 = 0
DaysInMonth(y, m) ==
    IF m = 2 THEN (IF IsLeap(y) THEN 29 ELSE 28)
    ELSE IF m \in {4, 6, 9, 11} THEN 30 ELSE 31

ParseFail == [ok |-> FALSE]

\* The %m directive at position p of s: 1[0-2] | 0[1-9] | [1-9].
\* The number of characters it takes, or 0 when it does not match.
MonthWidth(s, p) ==
    IF p + 1 <= Len(s) /\ IsDigit(s[p]) /\ IsDigit(s[p + 1])
       /\ Num(s, p, p + 1) \in 1..12
    THEN 2
    ELSE IF p <= Len(s) /\ IsDigit(s[p]) /\ DigitVal(s[p]) \in 1..9 THEN 1 ELSE 0

\* The %d directive at position p of s: 3[0-1] | [1-2]\d | 0[1-9] | [1-9] | " "[1-9].
DayWidth(s, p) ==
    IF p + 1 <= Len(s) /\ IsDigit(s[p]) /\ IsDigit(s[p + 1])
       /\ Num(s, p, p + 1) \in 1..31
    THEN 2
    ELSE IF p <= Len(s) /\ IsDigit(s[p]) /\ DigitVal(s[p]) \in 1..9 THEN 1
    ELSE IF p + 1 <= Len(s) /\ s[p] = " " /\ IsDigit(s[p + 1])
            /\ DigitVal(s[p + 1]) \in 1..9
    THEN 2 ELSE 0

\* The day number the %d directive read.
DayValue(s, p, w) == IF w = 2 /\ s[p] # " " THEN Num(s, p, p + 1)
                     ELSE IF w = 2 THEN DigitVal(s[p + 1]) ELSE DigitVal(s[p])

\* datetime.strptime(s, '%Y-%m-%d').date(): the whole of s must be consumed,
\* and the date must exist (year 1..9999, day within the month).
strptime(s) ==
    IF Len(s) >= 5 /\ (\A k \in 1..4 : IsDigit(s[k])) /\ s[5] = "-"
    THEN LET mw == MonthWidth(s, 6)
             dp == 6 + mw + 1
             dw == DayWidth(s, dp)
         IN IF mw > 0 /\ dp - 1 <= Len(s) /\ s[dp - 1] = "-" /\ dw > 0
               /\ dp + dw - 1 = Len(s)
            THEN LET y == Num(s, 1, 4)
                     m == Num(s, 6, 6 + mw - 1)
                     d == DayValue(s, dp, dw)
                 IN IF y >= 1 /\ d <= DaysInMonth(y, m)
                    THEN [ok |-> TRUE, date |-> <<y, m, d>>]
                    ELSE ParseFail
            ELSE ParseFail
    ELSE ParseFail

\* date.__lt__
DateLess(a, b) ==
    \/ a[1] < b[1]
    \/ a[1] = b[1] /\ a[2] < b[2]
    \/ a[1] = b[1] /\ a[2] = b[2] /\ a[3] < b[3]

\* Lines 41-46: due_date_str[:10] parsed inside the try; every exception
\* (a value that cannot be sliced or is no text, text that does not parse)
\* takes the except branch.
ParseDue(due_date_str) ==
    IF due_date_str.t = "str" THEN strptime(Prefix(due_date_str.v, 10)) ELSE ParseFail

\* -------------------------------------------------------- the text extractor
\* What the network gives for one GET: the request fails (connection error
\* or timeout), the status is not a success, or a response with a
\* Content-Type and a body that is either a PDF (its pages' texts, None for a
\* page without text) or markup (its text nodes).
Responses ==
    { [kind |-> "request_error"],
      [kind |-> "http_error"],
      [kind |-> "ok", content_type |-> <<"a","p","p","l","i","c","a","t","i","o","n","/","P","D","F">>,
       body |-> [fmt |-> "pdf", pages |-> <<PyStr(<<"P","o","E">>), PyNone, PyStr(<<"w","w","w">>)>>]],
      [kind |-> "ok", content_type |-> <<"t","e","x","t","/","h","t","m","l">>,
       body |-> [fmt |-> "html", nodes |-> <<<<" ","F","i","b","e","r"," ">>, <<" "," ">>, <<"w","i","-","f","i">>>>]] }

\* page.extract_text() or ""
PageText(p) == IF p.t = "str" THEN p.v ELSE <<>>

\* soup.get_text(separator=' ', strip=True): the stripped text nodes that are
\* not empty, joined by a blank.
RECURSIVE StrippedNodes(_)
StrippedNodes(nodes) ==
    IF nodes = <<>> THEN <<>>
    ELSE IF strip(nodes[1]) = <<>> THEN StrippedNodes(Tail(nodes))
    ELSE <<strip(nodes[1])>> \o StrippedNodes(Tail(nodes))
get_text(nodes) == join(<<" ">>, StrippedNodes(nodes))

\* The branch of line 19: the declared content type or the URL's suffix says PDF.
TakesPdfBranch(url, resp) ==
    Contains(<<"p","d","f">>, lower(resp.content_type)) \/ endswith(lower(url.v), <<".","p","d","f">>)

\* The try block of lines 16-27 raises: the url is no text or the request
\* fails (line 16), the status is not a success (line 17), or PdfReader cannot
\* read the body (line 22).
ExtractRaises(url, resp) ==
    \/ url.t # "str"
    \/ resp.kind # "ok"
    \/ TakesPdfBranch(url, resp) /\ resp.body.fmt # "pdf"

\* extract_text_from_url(url) when the network answers resp: every exception
\* ends in the except branch, which returns "".
extract_text_from_url(url, resp) ==
    IF ExtractRaises(url, resp) THEN <<>>
    ELSE IF TakesPdfBranch(url, resp)
         THEN join(<<"\n">>, [k \in 1..Len(resp.body.pages) |-> PageText(resp.body.pages[k])])
         ELSE get_text(resp.body.nodes)

\* ------------------------------------------------------- scoring (57-61)
\* Line 10.
KEYWORDS == <<<<"s","w","i","t","c","h">>, <<"a","c","c","e","s","s"," ","p","o","i","n","t">>, <<"w","i","r","e","l","e","s","s">>, <<"w","i","-","f","i">>, <<"p","o","e">>,
              <<"f","i","b","e","r">>, <<"n","e","t","w","o","r","k"," ","u","p","g","r","a","d","e">>>>

\* The loop with a matched keyword appended only if it is not there yet.
RECURSIVE ScoreLoopDistinct(_, _, _, _, _)
ScoreLoopDistinct(kws, text, k, score, matched) ==
    IF k > Len(kws) THEN [score |-> score, matched_keywords |-> matched]
    ELSE LET count == findall_count(lower(kws[k]), text)
         IN ScoreLoopDistinct(kws, text, k + 1, score + count,
                              IF count > 0 /\ \A j \in 1..Len(matched) : matched[j] # kws[k]
                              THEN Append(matched, kws[k]) ELSE matched)

\* The loop over the keywords, from the k-th on: score and matched_keywords.
RECURSIVE ScoreLoop(_, _, _, _, _)
ScoreLoop(kws, text, k, score, matched) ==
    IF k > Len(kws) THEN [score |-> score, matched_keywords |-> matched]
    ELSE LET count == findall_count(lower(kws[k]), text)
         IN ScoreLoop(kws, text, k + 1, score + count,
                      IF count > 0 THEN Append(matched, kws[k]) ELSE matched)

\* ---------------------------------------------------- features (62-70)
WifiFeature == <<"H","i","g","h","-","p","e","r","f","o","r","m","a","n","c","e"," ","W","i","-","F","i"," ","6"," ","a","c","c","e","s","s"," ","p","o","i","n","t","s">>
FiberFeature == <<"F","i","b","e","r","-","r","e","a","d","y"," ","s","w","i","t","c","h","e","s"," ","w","i","t","h"," ","P","o","E"," ","a","n","d"," ","V","L","A","N"," ","s","u","p","p","o","r","t">>
GenericFeature == <<"F","a","s","t"," ","d","e","l","i","v","e","r","y",","," ","e","x","p","e","r","t"," ","s","u","p","p","o","r","t",","," ","a","n","d"," ","c","o","m","p","e","t","i","t","i","v","e"," ","p","r","i","c","i","n","g">>
WifiTerms == <<<<"w","i","-","f","i">>, <<"a","c","c","e","s","s"," ","p","o","i","n","t">>, <<"w","i","r","e","l","e","s","s">>>>
FiberTerms == <<<<"f","i","b","e","r">>, <<"p","o","e">>, <<"s","w","i","t","c","h">>>>

\* any(kw in text for kw in terms)
AnyIn(terms, text) == \E k \in 1..Len(terms) : Contains(terms[k], text)

\* A variant that puts the generic feature first.
DeriveFeaturesGenericFirst(text) ==
    <<GenericFeature>>
    \o (IF AnyIn(WifiTerms, text) THEN <<WifiFeature>> ELSE <<>>)
    \o (IF AnyIn(FiberTerms, text) THEN <<FiberFeature>> ELSE <<>>)

DeriveFeatures(text) ==
    LET f1 == IF AnyIn(WifiTerms, text) THEN <<WifiFeature>> ELSE <<>>
        f2 == IF AnyIn(FiberTerms, text) THEN Append(f1, FiberFeature) ELSE f1
    IN IF f2 # <<>> THEN Append(f2, GenericFeature) ELSE <<GenericFeature>>

\* ------------------------------------------------ the result record (71-88)
EmptyStr == PyStr(<<>>)

\* The result record with jurisdiction_title taken before location.
AssembleBidJurisdictionFirst(rfp, due_date_str, score, matched, features) ==
    [title |-> Get(rfp, "title", EmptyStr),
     due_date |-> due_date_str,
     score |-> score,
     opportunity_status |-> Get(rfp, "opportunity_status", EmptyStr),
     detail_url |-> Get(rfp, "detail_url", PyNone),
     location |-> Get(rfp, "jurisdiction_title", Get(rfp, "location", EmptyStr)),
     description |-> Get(rfp, "description", EmptyStr),
     bid_categories |-> Get(rfp, "bid_categories", EmptyStr),
     agency |-> Get(rfp, "agency", EmptyStr),
     rfp_id |-> Get(rfp, "id", Get(rfp, "rfp_id", EmptyStr)),
     matched_keywords |-> PyStr(join(<<","," ">>, matched)),
     buyer_email |-> Get(rfp, "buyer_email", Get(rfp, "contact_email", EmptyStr)),
     buyer_title |-> Get(rfp, "buyer_title", EmptyStr),
     buyer_first_name |-> Get(rfp, "buyer_first_name", EmptyStr),
     buyer_last_name |-> Get(rfp, "buyer_last_name", EmptyStr),
     features |-> PyList(features)]

AssembleBid(rfp, due_date_str, score, matched, features) ==
    [title |-> Get(rfp, "title", EmptyStr),
     due_date |-> due_date_str,
     score |-> score,
     opportunity_status |-> Get(rfp, "opportunity_status", EmptyStr),
     detail_url |-> Get(rfp, "detail_url", PyNone),
     location |-> Get(rfp, "location", Get(rfp, "jurisdiction_title", EmptyStr)),
     description |-> Get(rfp, "description", EmptyStr),
     bid_categories |-> Get(rfp, "bid_categories", EmptyStr),
     agency |-> Get(rfp, "agency", EmptyStr),
     rfp_id |-> Get(rfp, "id", Get(rfp, "rfp_id", EmptyStr)),
     matched_keywords |-> PyStr(join(<<","," ">>, matched)),
     buyer_email |-> Get(rfp, "buyer_email", Get(rfp, "contact_email", EmptyStr)),
     buyer_title |-> Get(rfp, "buyer_title", EmptyStr),
     buyer_first_name |-> Get(rfp, "buyer_first_name", EmptyStr),
     buyer_last_name |-> Get(rfp, "buyer_last_name", EmptyStr),
     features |-> PyList(features)]

\* ------------------------------------------------------- the sort (89)
\* list.sort(key=score, reverse=True) is stable: among equal scores the
\* earlier element stays first.
RECURSIVE InsertByScore(_, _)
InsertByScore(sorted, b) ==
    IF sorted = <<>> THEN <<b>>
    ELSE IF sorted[1].score >= b.score
         THEN <<sorted[1]>> \o InsertByScore(Tail(sorted), b)
         ELSE <<b>> \o sorted

RECURSIVE SortFrom(_, _, _)
SortFrom(bids, k, sorted) ==
    IF k > Len(bids) THEN sorted ELSE SortFrom(bids, k + 1, InsertByScore(sorted, bids[k]))

\* A sort in ascending order.
RECURSIVE InsertByScoreAsc(_, _)
InsertByScoreAsc(sorted, b) ==
    IF sorted = <<>> THEN <<b>>
    ELSE IF sorted[1].score <= b.score
         THEN <<sorted[1]>> \o InsertByScoreAsc(Tail(sorted), b)
         ELSE <<b>> \o sorted
RECURSIVE SortAscFrom(_, _, _)
SortAscFrom(bids, k, sorted) ==
    IF k > Len(bids) THEN sorted ELSE SortAscFrom(bids, k + 1, InsertByScoreAsc(sorted, bids[k]))
SortAscending(bids) == SortAscFrom(bids, 1, <<>>)

SortByScoreDesc(bids) == SortFrom(bids, 1, <<>>)

\* ------------------------------------------------------------ the inputs
\* Feed records: a key that is absent from the record is absent from the
\* record's domain.
RecFull ==
    [opportunity_status |-> PyStr(<<"O","P","E","N">>), due_date |-> PyStr(<<"2","0","3","0","-","0","1","-","0","5">>),
     title |-> PyStr(<<"P","o","E"," ","S","w","i","t","c","h">>), description |-> PyStr(<<"w","w","w"," ","p","o","e","m">>),
     bid_categories |-> PyList(<<<<"F","i","b","e","r">>>>), detail_url |-> PyStr(<<"u","/","a",".","P","D","F">>),
     location |-> PyStr(<<"O","h","i","o">>), jurisdiction_title |-> PyStr(<<"I","o","w","a">>),
     agency |-> PyStr(<<"D","O","T">>), id |-> PyInt(7), rfp_id |-> PyStr(<<"8">>),
     buyer_email |-> PyStr(<<"a","@","x">>), contact_email |-> PyStr(<<"b","@","x">>),
     buyer_title |-> PyStr(<<"D","r">>), buyer_first_name |-> PyStr(<<"A","l">>),
     buyer_last_name |-> PyStr(<<"B","o">>)]
RecAlt ==
    [opportunity_status |-> PyStr(<<"o","p","e","n">>), due_date |-> PyStr(<<"2","0","3","0","-","0","1","-","0","6","T","1","0",":","0","0",":","0","0">>),
     title |-> PyStr(<<"A","c","c","e","s","s">>), description |-> PyStr(<<"P","o","i","n","t"," ","w","i","-","f","i">>),
     bid_categories |-> PyStr(<<"P","o","E">>), detail_url |-> PyStr(<<"u","/","b">>),
     jurisdiction_title |-> PyStr(<<"I","o","w","a">>), rfp_id |-> PyStr(<<"8">>),
     contact_email |-> PyStr(<<"b","@","x">>)]
RecMin == [opportunity_status |-> PyStr(<<"O","p","e","n">>), due_date |-> PyStr(<<"2","0","3","0","-","0","2","-","0","1">>)]
RecLenient ==
    [opportunity_status |-> PyStr(<<"O","P","E","N">>), due_date |-> PyStr(<<"2","0","3","0","-","1","-","6">>),
     title |-> PyStr(<<"w","i","r","e","l","e","s","s">>), detail_url |-> PyStr(<<>>),
     bid_categories |-> PyNone, location |-> PyNone]
RecClosed ==
    [opportunity_status |-> PyStr(<<"C","L","O","S","E","D">>), due_date |-> PyStr(<<"2","0","3","0","-","0","1","-","0","6">>),
     title |-> PyStr(<<"s","w","i","t","c","h">>), detail_url |-> PyStr(<<"u","/","b">>)]
RecNullStatus == [opportunity_status |-> PyNone, due_date |-> PyStr(<<"2","0","3","0","-","0","1","-","0","6">>)]
RecNullDue == [opportunity_status |-> PyStr(<<"O","P","E","N">>), due_date |-> PyNone]
RecFeb30 ==
    [opportunity_status |-> PyStr(<<"O","P","E","N">>), due_date |-> PyStr(<<"2","0","3","0","-","0","2","-","3","0">>),
     title |-> PyStr(<<"f","i","b","e","r">>)]
RecNullTitle ==
    [opportunity_status |-> PyStr(<<"O","P","E","N">>), due_date |-> PyStr(<<"2","0","3","0","-","0","1","-","0","6">>),
     title |-> PyNone, detail_url |-> PyStr(<<"u","/","b">>)]

\* The records of the feed by name.  A batch is a list of references to
\* records, as the Python list is; Record(ref) is the dict a reference leads to.
Feed ==
    [full |-> RecFull, alt |-> RecAlt, min |-> RecMin, lenient |-> RecLenient,
     closed |-> RecClosed, nullstatus |-> RecNullStatus, nulldue |-> RecNullDue,
     feb30 |-> RecFeb30, nulltitle |-> RecNullTitle]
Records == DOMAIN Feed
Record(ref) == Feed[ref]

\* Keyword lists a caller passes: the default, and a list with mixed case, a
\* regex metacharacter, a repeated entry, a trailing blank, the empty text and
\* a keyword whose occurrences can overlap.
KeywordLists ==
    { KEYWORDS,
      <<<<"P","o","E">>, <<"p",".","e">>, <<"p","o","e">>, <<"p","o","e">>, <<"p","o","e"," ">>, <<>>, <<"w","w">>>> }

\* The dates datetime.today().date() gives (line 34).
Todays == { <<2030, 1, 5>>, <<2030, 1, 6>> }

Batches == UNION { [1..n -> Records] : n \in 0..MaxBatch }

\* ------------------------------------------------------------ process_rfps
\* pc is the position in process_rfps: "loop" at the head of the for loop
\* (line 37), "fetch" at the call of extract_text_from_url (line 55), "score"
\* at line 56, "done" after the return, "raised" when an exception left the
\* function.  returned tells whether process_rfps returned; what it returned is
\* then the pair of scored_bids and skipped.  events records, in order, what the run did to which record:
\* <<"skip", i>> and <<"pass", i>> are the two outcomes of the eligibility
\* filter, <<"fetch", i, failed, text>> a call of the extractor, whether its
\* try block raised and what it returned, <<"score", i>> the append of the result record, <<"raise", i>>
\* an exception.
Init ==
    /\ rfps \in Batches
    /\ keywords \in KeywordLists
    /\ log_skipped \in BOOLEAN
    /\ today \in Todays
    /\ pc = "loop"
    /\ idx = 1
    /\ fields_to_search = <<>>
    /\ scored_bids = <<>>
    /\ skipped = <<>>
    /\ returned = FALSE
    /\ events = <<>>

\* Lines 38-49: the three tests that skip a record.
StatusOpen(rfp) == upper(Get(rfp, "opportunity_status", EmptyStr).v) = <<"O","P","E","N">>
DueOk(rfp, day) ==
    LET parsed == ParseDue(Get(rfp, "due_date", EmptyStr))
    IN parsed.ok /\ ~DateLess(parsed.date, day)

\* The skip with the record appended whether or not logging was asked for.
SkipAlwaysLogged(rfp) ==
    /\ skipped' = Append(skipped, rfp)
    /\ events' = events \o <<<<"skip", idx>>>>
    /\ idx' = idx + 1
    /\ UNCHANGED <<pc, fields_to_search, scored_bids>>

\* if log_skipped: skipped.append(rfp); continue
Skip(rfp) ==
    /\ skipped' = IF log_skipped THEN Append(skipped, rfp) ELSE skipped
    /\ events' = events \o <<<<"skip", idx>>>>
    /\ idx' = idx + 1
    /\ UNCHANGED <<pc, fields_to_search, scored_bids>>

\* An exception leaves process_rfps: nothing is returned.
Raise ==
    /\ pc' = "raised"
    /\ events' = events \o <<<<"raise", idx>>>>
    /\ UNCHANGED <<idx, fields_to_search, scored_bids, skipped>>

\* Lines 37-54: the head of one iteration, up to the test of detail_url.
Examine ==
    /\ pc = "loop"
    /\ idx <= Len(rfps)
    /\ LET rfp == Record(rfps[idx])
       IN IF Get(rfp, "opportunity_status", EmptyStr).t # "str"
          THEN \* .upper() of a value that is no text: AttributeError
               Raise
          ELSE IF ~StatusOpen(rfp) \/ ~DueOk(rfp, today)
          THEN Skip(rfps[idx])
          ELSE /\ fields_to_search' = << Get(rfp, "title", EmptyStr),
                                         Get(rfp, "description", EmptyStr),
                                         PyStr(str_(Get(rfp, "bid_categories", EmptyStr))) >>
               /\ pc' = IF Truthy(Get(rfp, "detail_url", PyNone)) THEN "fetch" ELSE "score"
               /\ events' = events \o <<<<"pass", idx>>>>
               /\ UNCHANGED <<idx, scored_bids, skipped>>
    /\ UNCHANGED <<rfps, keywords, log_skipped, today, returned>>

\* Line 55: the call of the text extractor, whatever the network answers.
Fetch ==
    /\ pc = "fetch"
    /\ \E resp \in Responses :
          LET url == Get(Record(rfps[idx]), "detail_url", PyNone)
              extracted == extract_text_from_url(url, resp)
          IN /\ fields_to_search' = Append(fields_to_search, PyStr(extracted))
             /\ events' = events \o <<<<"fetch", idx, ExtractRaises(url, resp), extracted>>>>
    /\ pc' = "score"
    /\ UNCHANGED <<rfps, keywords, log_skipped, today, idx, scored_bids, skipped, returned>>

\* Lines 56-88: the text is joined and lower-cased, scored, and the result
\* record appended.  " ".join raises TypeError on an item that is no text.
Score ==
    /\ pc = "score"
    /\ IF \E k \in 1..Len(fields_to_search) : fields_to_search[k].t # "str"
       THEN Raise
       ELSE LET rfp == Record(rfps[idx])
                text == lower(join(<<" ">>, [k \in 1..Len(fields_to_search) |-> fields_to_search[k].v]))
                s == ScoreLoop(keywords, text, 1, 0, <<>>)
            IN /\ scored_bids' =
                     Append(scored_bids,
                            AssembleBid(rfp, Get(rfp, "due_date", EmptyStr), s.score,
                                        s.matched_keywords, DeriveFeatures(text)))
               /\ events' = events \o <<<<"score", idx>>>>
               /\ idx' = idx + 1
               /\ pc' = "loop"
               /\ fields_to_search' = <<>>
               /\ UNCHANGED skipped
    /\ UNCHANGED <<rfps, keywords, log_skipped, today, returned>>

\* Lines 89-90: the sort in place and the return.
Return ==
    /\ pc = "loop"
    /\ idx > Len(rfps)
    /\ scored_bids' = SortByScoreDesc(scored_bids)
    /\ returned' = TRUE
    /\ pc' = "done"
    /\ UNCHANGED <<rfps, keywords, log_skipped, today, idx, fields_to_search, skipped, events>>

Next == Examine \/ Fetch \/ Score \/ Return

Spec == Init /\ [][Next]_vars

\* ================================================================ properties
\* What the properties below read off a run.
Range(s) == { s[k] : k \in 1..Len(s) }
HasEvent(kind, i) == \E n \in 1..Len(events) : events[n][1] = kind /\ events[n][2] = i
IsScoreEvent(e) == e[1] = "score"
\* The indices of the records whose result record was appended, in that order.
ScoredOrder == LET es == SelectSeq(events, IsScoreEvent) IN [k \in 1..Len(es) |-> es[k][2]]
FetchEvent(i) == events[CHOOSE n \in 1..Len(events) : events[n][1] = "fetch" /\ events[n][2] = i]

\* The texts that make up record i's aggregated text, and the text itself
\* before it is lower-cased.
StructuredParts(i) ==
    << Get(Record(rfps[i]), "title", EmptyStr).v, Get(Record(rfps[i]), "description", EmptyStr).v,
       str_(Get(Record(rfps[i]), "bid_categories", EmptyStr)) >>
AggregatedParts(i) ==
    StructuredParts(i) \o (IF HasEvent("fetch", i) THEN <<FetchEvent(i)[4]>> ELSE <<>>)
AggregatedText(i) == join(<<" ">>, AggregatedParts(i))

\* P(bid, i, text) holds of every result record, the input record i it was
\* made from and that record's aggregated text.  Before the sort the k-th
\* result record is the one appended k-th; after the sort a result record is
\* looked up among the scored inputs by the title and due_date it copies.  The
\* result records change only when one is appended and when they are sorted,
\* so the states to look at are those at the head of the loop and after the
\* return.
CopiedFrom(bid, i) ==
    /\ bid.title = Get(Record(rfps[i]), "title", EmptyStr)
    /\ bid.due_date = Get(Record(rfps[i]), "due_date", EmptyStr)
ForEveryBid(P(_, _, _)) ==
    CASE pc = "done" ->
            \A k \in 1..Len(scored_bids) : \E j \in 1..Len(ScoredOrder) :
                /\ CopiedFrom(scored_bids[k], ScoredOrder[j])
                /\ P(scored_bids[k], ScoredOrder[j], AggregatedText(ScoredOrder[j]))
      [] pc = "loop" ->
            /\ Len(scored_bids) = Len(ScoredOrder)
            /\ \A k \in 1..Len(scored_bids) :
                  P(scored_bids[k], ScoredOrder[k], AggregatedText(ScoredOrder[k]))
      [] OTHER -> Len(scored_bids) = Len(ScoredOrder)

\* Occurrences of kw in text, ignoring case, as a set of positions, and the
\* largest number of them that do not overlap.
Occurrences(kw, text) ==
    LET t == lower(text)
        p == lower(kw)
    IN { k \in 1..(Len(t) - Len(p) + 1) : \A j \in 1..Len(p) : t[k + j - 1] = p[j] }
NonOverlapping(ps, n) == \A p, q \in ps : p < q => p + n <= q
OccurrenceCount(kw, text) ==
    LET occ == Occurrences(kw, text)
    IN IF kw = <<>> THEN Cardinality(occ)
       ELSE CHOOSE n \in 0..Cardinality(occ) :
               /\ \E ps \in SUBSET occ : NonOverlapping(ps, Len(kw)) /\ Cardinality(ps) = n
               /\ \A ps \in SUBSET occ : NonOverlapping(ps, Len(kw)) => Cardinality(ps) <= n
RECURSIVE SumOfCounts(_, _)
SumOfCounts(kws, text) ==
    IF kws = <<>> THEN 0 ELSE OccurrenceCount(kws[1], text) + SumOfCounts(Tail(kws), text)
\* The entries of the keyword list that occur in text, in list order.
RECURSIVE OccurringEntries(_, _)
OccurringEntries(kws, text) ==
    IF kws = <<>> THEN <<>>
    ELSE (IF OccurrenceCount(kws[1], text) >= 1 THEN <<kws[1]>> ELSE <<>>)
         \o OccurringEntries(Tail(kws), text)
NoDuplicates(s) == \A a, b \in 1..Len(s) : a # b => s[a] # s[b]

\* ---------------------------------------------------------------- C1
\* C1: process_rfps never raises, whatever is missing, null or mistyped in a
\* record: no run ends with an exception leaving the function.
C1_NeverRaises == pc # "raised"

\* ---------------------------------------------------------------- C2
\* The first 10 characters of a text are a YYYY-MM-DD calendar date: four
\* digits, a dash, two digits, a dash, two digits, naming a day that exists.
IsoPrefixDate(s) ==
    LET p == Prefix(s, 10)
    IN IF /\ Len(p) = 10
          /\ \A k \in {1, 2, 3, 4, 6, 7, 9, 10} : IsDigit(p[k])
          /\ p[5] = "-" /\ p[8] = "-"
          /\ Num(p, 1, 4) >= 1
          /\ Num(p, 6, 7) \in 1..12
          /\ Num(p, 9, 10) >= 1
          /\ Num(p, 9, 10) <= DaysInMonth(Num(p, 1, 4), Num(p, 6, 7))
       THEN [ok |-> TRUE, date |-> <<Num(p, 1, 4), Num(p, 6, 7), Num(p, 9, 10)>>]
       ELSE [ok |-> FALSE]
EligibleAsClaimed(rfp, day) ==
    /\ "opportunity_status" \in DOMAIN rfp
    /\ rfp["opportunity_status"].t = "str"
    /\ lower(rfp["opportunity_status"].v) = <<"o","p","e","n">>
    /\ "due_date" \in DOMAIN rfp
    /\ rfp["due_date"].t = "str"
    /\ IsoPrefixDate(rfp["due_date"].v).ok
    /\ ~DateLess(IsoPrefixDate(rfp["due_date"].v).date, day)
\* C2: when process_rfps returns, a record has a ScoredBid in the output if and
\* only if its status is OPEN ignoring case and the first 10 characters of its
\* due_date are a YYYY-MM-DD calendar date equal to or after today.
C2_ScoredIffOpenAndIsoDateNotPast ==
    returned =>
        \A i \in 1..Len(rfps) : HasEvent("score", i) <=> EligibleAsClaimed(Record(rfps[i]), today)

\* ---------------------------------------------------------------- C3
\* C3: every ScoredBid's score is the sum, over the keyword list, of the number
\* of non-overlapping case-insensitive literal occurrences of the keyword in
\* the record's aggregated text (title, description, str(bid_categories) and,
\* when fetched, the extracted text, joined by blanks); it is a natural number.
ScoreIsSumOfCounts(bid, i, text) ==
    /\ bid.score \in Nat
    /\ bid.score = SumOfCounts(keywords, text)
C3_ScoreIsSumOfOccurrenceCounts == ForEveryBid(ScoreIsSumOfCounts)
\* A keyword of the default list occurs more than once in a scored record's text.
C3_Witness ==
    /\ keywords = KEYWORDS
    /\ pc # "done"
    /\ \E k \in 1..Len(scored_bids) :
          /\ k <= Len(ScoredOrder)
          /\ OccurrenceCount(<<"p","o","e">>, AggregatedText(ScoredOrder[k])) >= 2
          /\ scored_bids[k].score >= 3

\* ---------------------------------------------------------------- C4
\* C4 as claimed: matched_keywords is a sequence of keyword strings, without
\* duplicates, holding exactly the keywords that occur, in keyword-list order.
MatchedIsDistinctSequence(bid, i, text) ==
    /\ bid.matched_keywords.t = "list"
    /\ NoDuplicates(bid.matched_keywords.items)
    /\ bid.matched_keywords.items = OccurringEntries(keywords, text)
MatchedIsJoinedText(bid, i, text) ==
    /\ bid.matched_keywords = PyStr(join(<<","," ">>, OccurringEntries(keywords, text)))
    /\ bid.score = 0 => bid.matched_keywords = EmptyStr
CountIn(x, s) == Cardinality({ k \in 1..Len(s) : s[k] = x })
TermOccurs(terms, text) == \E t \in Range(terms) : Occurrences(t, text) # {}
\* C5: features has 1 to 3 entries; the Wi-Fi feature is there iff "wi-fi",
\* "access point" or "wireless" occurs in the aggregated text, the fiber
\* feature iff "fiber", "poe" or "switch" occurs; the generic feature is there
\* exactly once and last, and the Wi-Fi feature comes before the fiber one.
FeaturesFollowText(bid, i, text) ==
    LET f == bid.features.items
    IN /\ bid.features.t = "list"
       /\ Len(f) \in 1..3
       /\ Range(f) \subseteq {WifiFeature, FiberFeature, GenericFeature}
       /\ NoDuplicates(f)
       /\ f[Len(f)] = GenericFeature
       /\ (WifiFeature \in Range(f)) <=> TermOccurs(WifiTerms, text)
       /\ (FiberFeature \in Range(f)) <=> TermOccurs(FiberTerms, text)
       /\ Len(f) = 3 => f[1] = WifiFeature /\ f[2] = FiberFeature
C5_FeaturesFollowText == ForEveryBid(FeaturesFollowText)
\* One record with all three features and one with the generic feature alone.
C5_Witness ==
    /\ \E k \in 1..Len(scored_bids) : Len(scored_bids[k].features.items) = 3
    /\ \E k \in 1..Len(scored_bids) : Len(scored_bids[k].features.items) = 1

\* ---------------------------------------------------------------- C6
BagOfSeq(s) == [x \in Range(s) |-> Cardinality({ k \in 1..Len(s) : s[k] = x })]
SortedByScoreDescending(s) == \A k \in 1..(Len(s) - 1) : s[k].score >= s[k + 1].score
\* C6: the step that returns leaves scored_bids sorted by score descending and
\* holding the same result records as before, each as often as before; that
\* list is what is returned.
C6_ReturnSortsAndKeepsBids ==
    [][pc = "loop" /\ pc' = "done" =>
          /\ SortedByScoreDescending(scored_bids')
          /\ BagOfSeq(scored_bids') = BagOfSeq(scored_bids)
          /\ Len(scored_bids') = Len(scored_bids)
          /\ returned']_vars
\* The record scored first has the lower score and is returned second.
C6_Witness ==
    /\ returned
    /\ rfps = <<"min", "alt">>
    /\ Len(scored_bids) = 2
    /\ scored_bids[1].score > scored_bids[2].score
    /\ scored_bids[1].title = PyStr(<<"A","c","c","e","s","s">>)

\* ---------------------------------------------------------------- C7
\* The extractor was called for record i and failed.
ExtractorFailed(i) == HasEvent("fetch", i) /\ FetchEvent(i)[3]
\* Whenever the extractor fails it returns the empty text.
FailedFetchGivesEmptyText == \A i \in 1..Len(rfps) : ExtractorFailed(i) => FetchEvent(i)[4] = <<>>
ScoredFromFieldsAlone(bid, i, text) ==
    ExtractorFailed(i) =>
        LET alone == ScoreLoop(keywords, lower(join(<<" ">>, StructuredParts(i))), 1, 0, <<>>)
        IN /\ bid.score = alone.score
           /\ bid.matched_keywords = PyStr(join(<<","," ">>, alone.matched_keywords))
\* C7: when the extractor fails for a record's detail URL it returns the empty
\* text, and the record's ScoredBid has the score and matched_keywords computed
\* from title, description and bid_categories alone.
C7_FailedFetchScoresFieldsAlone ==
    /\ FailedFetchGivesEmptyText
    /\ ForEveryBid(ScoredFromFieldsAlone)

\* ---------------------------------------------------------------- C8
Ineligible(i) == ~(StatusOpen(Record(rfps[i])) /\ DueOk(Record(rfps[i]), today))
\* The input records from the k-th on that are ineligible, in input order.
RECURSIVE IneligibleFrom(_)
IneligibleFrom(k) ==
    IF k > Len(rfps) THEN <<>>
    ELSE (IF Ineligible(k) THEN <<rfps[k]>> ELSE <<>>) \o IneligibleFrom(k + 1)
\* C8: in what process_rfps returns, skipped is, when logging was asked for, the
\* ineligible input records, each once, in input order and unchanged, and is
\* empty otherwise; no skipped record was scored, and with logging the two
\* collections together have as many entries as the input.
C8_SkippedHoldsTheIneligibleRecords ==
    returned =>
        /\ skipped = (IF log_skipped THEN IneligibleFrom(1) ELSE <<>>)
        /\ \A i \in 1..Len(rfps) : ~(HasEvent("skip", i) /\ HasEvent("score", i))
        /\ \A i \in 1..Len(rfps) : HasEvent("skip", i) <=> Ineligible(i)
        /\ log_skipped => Len(scored_bids) + Len(skipped) = Len(rfps)
\* A batch with a record skipped for its status and one skipped for its date.
C8_Witness ==
    /\ returned
    /\ log_skipped
    /\ skipped = <<"feb30", "closed">>
    /\ rfps = <<"feb30", "closed">>

\* ---------------------------------------------------------------- C9
\* The value of the first of the keys that is present in rfp, or the default.
RECURSIVE FirstPresent(_, _, _)
FirstPresent(rfp, keys, default) ==
    IF keys = <<>> THEN default
    ELSE IF keys[1] \in DOMAIN rfp THEN rfp[keys[1]]
    ELSE FirstPresent(rfp, Tail(keys), default)
\* The input keys each output field is taken from.
SourceKeys ==
    [title |-> <<"title">>, due_date |-> <<"due_date">>,
     opportunity_status |-> <<"opportunity_status">>, detail_url |-> <<"detail_url">>,
     location |-> <<"location", "jurisdiction_title">>, description |-> <<"description">>,
     bid_categories |-> <<"bid_categories">>, agency |-> <<"agency">>,
     rfp_id |-> <<"id", "rfp_id">>, buyer_email |-> <<"buyer_email", "contact_email">>,
     buyer_title |-> <<"buyer_title">>, buyer_first_name |-> <<"buyer_first_name">>,
     buyer_last_name |-> <<"buyer_last_name">>]
FieldsDefaultToEmptyText(bid, i, text) ==
    \A f \in DOMAIN SourceKeys : bid[f] = FirstPresent(Record(rfps[i]), SourceKeys[f], EmptyStr)
\* C9 as claimed: every output field is the first present of its input keys
\* and the empty text when none is present.
C9_EveryFieldDefaultsToEmptyText == ForEveryBid(FieldsDefaultToEmptyText)
FieldsFollowMapping(bid, i, text) ==
    /\ \A f \in DOMAIN SourceKeys :
          bid[f] = FirstPresent(Record(rfps[i]), SourceKeys[f], IF f = "detail_url" THEN PyNone ELSE EmptyStr)
    /\ bid.due_date = Record(rfps[i])["due_date"]
\* C9 as amended: every output field is the first present of its input keys;
\* when none is present it is the empty text, except detail_url, which is
\* None; due_date is the input text as given.
C9_FieldsFollowMapping == ForEveryBid(FieldsFollowMapping)
\* A record with both keys of a pair, one with the second only, and one with
\* neither and no detail_url; a due_date longer than 10 characters.
C9_Witness ==
    /\ pc # "done"
    /\ \E k \in 1..Len(scored_bids) :
          /\ k <= Len(ScoredOrder)
          /\ {"location", "jurisdiction_title"} \subseteq DOMAIN Record(rfps[ScoredOrder[k]])
          /\ scored_bids[k].location = Record(rfps[ScoredOrder[k]])["location"]
    /\ \E k \in 1..Len(scored_bids) :
          /\ scored_bids[k].detail_url = PyNone
          /\ scored_bids[k].rfp_id = EmptyStr

\* ---------------------------------------------------------------- C10
\* detail_url is present and not empty.
HasDetailUrl(rfp) ==
    /\ "detail_url" \in DOMAIN rfp
    /\ rfp["detail_url"] \notin {PyNone, EmptyStr, PyInt(0), PyList(<<>>)}
\* C10: the run handles the records in input order, one after the other; the
\* filter decides first; a skipped record is neither fetched nor scored; the
\* extractor is called at most once per record, after the record passed the
\* filter, only for a detail_url that is present and not empty, and before the
\* record is scored and the next record is examined.
C10_SequentialOneFetchAfterFilter ==
    /\ \A n, m \in 1..Len(events) : n < m => events[n][2] <= events[m][2]
    /\ \A n \in 1..Len(events) :
          LET i == events[n][2]
          IN /\ i \in 1..Len(rfps)
             /\ i > 1 => \/ HasEvent("skip", i - 1)
                         \/ HasEvent("score", i - 1)
             /\ events[n][1] \in {"fetch", "score"} =>
                   \E m \in 1..(n - 1) : events[m][1] = "pass" /\ events[m][2] = i
             /\ events[n][1] \in {"skip", "pass"} =>
                   \A m \in 1..(n - 1) : events[m][2] < i
             /\ events[n][1] = "skip" =>
                   \A m \in 1..Len(events) : events[m][2] = i => m = n
             /\ events[n][1] = "fetch" =>
                   /\ HasDetailUrl(Record(rfps[i]))
                   /\ \A m \in 1..Len(events) : events[m][1] = "fetch" /\ events[m][2] = i => m = n
                   /\ \A m \in 1..(n - 1) : events[m][1] # "score" \/ events[m][2] < i
    /\ pc = "fetch" => ~HasEvent("fetch", idx)
\* Two records of one batch, each fetched once, one after the other.
C10_Witness ==
    /\ Len(events) >= 5
    /\ \E n, m \in 1..Len(events) :
          /\ n < m
          /\ events[n][1] = "fetch" /\ events[m][1] = "fetch"
          /\ events[n][2] < events[m][2]
====
